---- MODULE Spec2Model ----
(***************************************************************************)
(* cec-ctl-rest-api: the CEC command core (cec.js), its monolithic         *)
(* predecessor (app.js) and the process around them (bootstrap, REST       *)
(* adapter), modelled as one state machine over a scripted cec-ctl tool    *)
(* and a receiver whose volume and mute react to user-control presses.     *)
(*                                                                         *)
(* JavaScript runs one synchronous segment at a time: every action below   *)
(* is one such segment (a whole handler, or the part of an async function  *)
(* between two awaits).                                                    *)
(***************************************************************************)
EXTENDS Integers, Sequences, FiniteSets, TLC

(***************************************************************************)
(* Bounds of the model                                                     *)
(***************************************************************************)
MaxVol == 30
MaxFaults == 2
MaxSignals == 2

VolLevels == 28 .. MaxVol

\* The clients of the server; each has at most one request outstanding.
ReqIds == {1, 2}

(***************************************************************************)
(* JavaScript values.  A value is a record [t, v]; strings are sequences   *)
(* of one-character strings so that conversions are computed, not assumed. *)
(***************************************************************************)
Num(n) == [t |-> "num", v |-> n]
Str(s) == [t |-> "str", v |-> s]
Bool(b) == [t |-> "bool", v |-> b]
NaN == [t |-> "nan", v |-> 0]
Null == [t |-> "null", v |-> 0]
Undef == [t |-> "undef", v |-> 0]

\* What a handler that ended by raising leaves instead of a result.
Thrown == [t |-> "thrown", v |-> 0]

DigitChars == <<"0", "1", "2", "3", "4", "5", "6", "7", "8", "9">>
WordChars == {"a", "b", "c", "d", "e", "f", "g", "h", "i", "j", "k", "l", "m",
              "n", "o", "p", "q", "r", "s", "t", "u", "v", "w", "x", "y", "z", "_"}

IsDigit(c) == \E k \in 1 .. 10 : DigitChars[k] = c
DigitVal(c) == (CHOOSE k \in 1 .. 10 : DigitChars[k] = c) - 1
IsWordChar(c) == IsDigit(c) \/ c \in WordChars

\* Decimal value of a sequence of digit characters.
RECURSIVE DecVal(_)
DecVal(s) == IF s = <<>> THEN 0
             ELSE 10 * DecVal(SubSeq(s, 1, Len(s) - 1)) + DigitVal(s[Len(s)])

\* Longest prefix of s whose characters are digits (the regex group \d+).
RECURSIVE DigitPrefix(_)
DigitPrefix(s) == IF s = <<>> \/ ~IsDigit(s[1]) THEN <<>>
                  ELSE <<s[1]>> \o DigitPrefix(Tail(s))

\* Longest prefix of s whose characters are word characters (\w+).
RECURSIVE WordPrefix(_)
WordPrefix(s) == IF s = <<>> \/ ~IsWordChar(s[1]) THEN <<>>
                 ELSE <<s[1]>> \o WordPrefix(Tail(s))

\* parseInt of a string: the value of its leading digits, NaN without any.
parseInt(s) == IF DigitPrefix(s) = <<>> THEN NaN ELSE Num(DecVal(DigitPrefix(s)))

\* What the tool prints for a number: its decimal digits.
RECURSIVE Digits(_)
Digits(n) == IF n < 10 THEN <<DigitChars[n + 1]>>
             ELSE Digits(n \div 10) \o <<DigitChars[(n % 10) + 1]>>

\* ToNumber, the conversion behind -, <, > and == on mixed operands.
ToNumber(x) ==
    CASE x.t = "num" -> x
      [] x.t = "bool" -> Num(IF x.v THEN 1 ELSE 0)
      [] x.t = "null" -> Num(0)
      [] x.t = "str" -> IF x.v = <<>> THEN Num(0)
                        ELSE IF DigitPrefix(x.v) = x.v THEN Num(DecVal(x.v))
                        ELSE IF x.v[1] = "-" /\ Len(x.v) > 1 /\ DigitPrefix(Tail(x.v)) = Tail(x.v)
                        THEN Num(0 - DecVal(Tail(x.v)))
                        ELSE NaN
      [] OTHER -> NaN

\* a === b
StrictEq(a, b) == a.t = b.t /\ a.t # "nan" /\ a.v = b.v

\* a === b taken for a == b.
LooseEq_strict(a, b) == StrictEq(a, b)

\* a == b for the operand kinds the program meets (primitives only).
LooseEq(a, b) ==
    IF a.t = b.t THEN StrictEq(a, b)
    ELSE IF a.t \in {"null", "undef"} \/ b.t \in {"null", "undef"}
         THEN a.t \in {"null", "undef"} /\ b.t \in {"null", "undef"}
    ELSE LET x == ToNumber(a)
             y == ToNumber(b)
         IN  x.t = "num" /\ y.t = "num" /\ x.v = y.v

\* a < b on a number and a number-or-string operand.
LessThan(a, b) ==
    LET x == ToNumber(a)
        y == ToNumber(b)
    IN  x.t = "num" /\ y.t = "num" /\ x.v < y.v

\* !x
Falsy(x) ==
    CASE x.t = "num" -> x.v = 0
      [] x.t = "str" -> x.v = <<>>
      [] x.t = "bool" -> ~x.v
      [] x.t = "rat" -> x.n = 0
      [] OTHER -> TRUE

\* x || y
OrElse(x, y) == IF Falsy(x) THEN y ELSE x


(***************************************************************************)
(* Numbers that need not be whole: the step size and the step count.       *)
(***************************************************************************)
Rat(n, d) == [t |-> "rat", n |-> n, d |-> d]
Abs(x) == IF x < 0 THEN 0 - x ELSE x

StepSizes == {Rat(1, 2), Rat(3, 2)}
DelayValues == {0, 50}

\* The gap taken for the step count, the division by the step size left out.
AdjustmentSteps_nostep(currentVolume, volume, step) ==
    LET a == IF currentVolume.t = "undef" THEN NaN ELSE ToNumber(currentVolume)
        b == IF volume.t = "undef" THEN NaN ELSE ToNumber(volume)
    IN  IF a.t = "nan" \/ b.t = "nan" THEN NaN
        ELSE Rat(Abs(a.v - b.v), 1)

\* Math.abs(currentVolume - volume) / step
AdjustmentSteps(currentVolume, volume, step) ==
    LET a == IF currentVolume.t = "undef" THEN NaN ELSE ToNumber(currentVolume)
        b == IF volume.t = "undef" THEN NaN ELSE ToNumber(volume)
    IN  IF a.t = "nan" \/ b.t = "nan" THEN NaN
        ELSE Rat(Abs(a.v - b.v) * step.d, step.n)

\* i <= adjustmentSteps, the loop running once too often.
LoopCond_le(i, steps) == steps.t = "rat" /\ i * steps.d <= steps.n

\* i < adjustmentSteps
LoopCond(i, steps) == steps.t = "rat" /\ i * steps.d < steps.n

(***************************************************************************)
(* Text.  Captured output is a sequence of lines [k, v]: k is the text up  *)
(* to and including the colon-separated marker, v the characters after it. *)
(***************************************************************************)
Line(k, v) == [k |-> k, v |-> v]

\* [a, b].join('\n')
Join(a, b) == a \o b

\* text.match(/<marker>: (<class>+)/): the first line carrying the marker
\* followed by at least one character of the class; Null without a match.
RECURSIVE MatchDigits(_, _)
MatchDigits(text, marker) ==
    IF text = <<>> THEN Null
    ELSE IF text[1].k = marker /\ DigitPrefix(text[1].v) # <<>>
         THEN Str(DigitPrefix(text[1].v))
         ELSE MatchDigits(Tail(text), marker)

\* The same for /<marker>: (\S+)/: the characters up to the first blank.
RECURSIVE MatchToken(_, _)
MatchToken(text, marker) ==
    IF text = <<>> THEN Null
    ELSE LET v == text[1].v
             n == CHOOSE n \in 0 .. Len(v) :
                      /\ \A i \in 1 .. n : v[i] # " "
                      /\ n = Len(v) \/ v[n + 1] = " "
         IN  IF text[1].k = marker /\ n > 0
             THEN Str(SubSeq(v, 1, n))
             ELSE MatchToken(Tail(text), marker)

RECURSIVE MatchWord(_, _)
MatchWord(text, marker) ==
    IF text = <<>> THEN Null
    ELSE IF text[1].k = marker /\ WordPrefix(text[1].v) # <<>>
         THEN Str(WordPrefix(text[1].v))
         ELSE MatchWord(Tail(text), marker)

(***************************************************************************)
(* The cec-ctl tool and the receiver behind it.  The receiver keeps its    *)
(* volume in half units (the default step of the program) and reports the  *)
(* whole part; a successful press acts on it.  One invocation either fails *)
(* (non-zero exit: execSync throws) or prints its report, which may lack   *)
(* either status line or be empty.                                         *)
(***************************************************************************)
Shapes == {"full", "novol", "nomute", "empty"}
ReadOutcomes == [ok : BOOLEAN, shape : Shapes]
OkRead == [ok |-> TRUE, shape |-> "full"]
Ok == [ok |-> TRUE, shape |-> "full"]
Fail == [ok |-> FALSE, shape |-> "full"]
CmdOutcomes == {Ok, Fail}

Controls == {"volume-up", "volume-down", "mute"}

MinQ == 2 * 28
MaxQ == 2 * MaxVol
Clip(q) == IF q < MinQ THEN MinQ ELSE IF q > MaxQ THEN MaxQ ELSE q

StatusText(w, shape) ==
    LET hdr == <<Line("GIVE_AUDIO_STATUS", <<"(", "0", "x", "7", "1", ")">>)>>
        muteLine == <<Line("aud-mute-status",
                           IF w.mute THEN <<"o", "n", " ">> ELSE <<"o", "f", "f", " ">>)>>
        volLine == <<Line("aud-vol-status", Digits(w.vol \div 2) \o <<" ">>)>>
    IN  CASE shape = "full" -> hdr \o muteLine \o volLine
          [] shape = "novol" -> hdr \o muteLine
          [] shape = "nomute" -> hdr \o volLine
          [] OTHER -> <<>>

ErrText(cmd) == <<Line("Error: Command failed", <<>>), Line(cmd, <<>>)>>

\* The report of the receiver's CEC version: complete, without its version
\* line, or nothing at all.
VersionText(shape) ==
    LET hdr == <<Line("GET_CEC_VERSION", <<"(", "0", "x", "9", "f", ")">>)>>
        versionLine == <<Line("cec-version",
                              <<"v", "e", "r", "s", "i", "o", "n", "-", "1", "-", "4", " ">>)>>
    IN  CASE shape = "full" -> hdr \o versionLine
          [] shape = "empty" -> <<>>
          [] OTHER -> hdr

ToolOutput(w, cmd, ctl, shape) ==
    IF cmd = "give-audio-status" THEN StatusText(w, shape)
    ELSE IF cmd = "get-cec-version" THEN VersionText(shape)
    ELSE <<Line(cmd, <<>>)>>

\* The receiver after a successful command.
DeviceAfter(w, cmd, ctl) ==
    IF cmd # "user-control-pressed" THEN w
    ELSE CASE ctl = "volume-up" -> [w EXCEPT !.vol = Clip(w.vol + w.step)]
           [] ctl = "volume-down" -> [w EXCEPT !.vol = Clip(w.vol - w.step)]
           [] ctl = "mute" -> [w EXCEPT !.mute = ~w.mute]
           [] OTHER -> w

\* The child processes still running when a call that does not wait for its
\* child (exec) returns.
AfterExec_async(n) == n

\* The child processes still running when execSync returns: it blocks the
\* only thread until its child has exited.
AfterExec(n) == n - 1

\* execSync(command): the bus transaction itself, recorded in the bus log
\* with the number of invocations that were in flight when it started.
ExecSync(w, rid, command, ctl, oc) ==
    LET cmd == command[3]
        out == IF oc.ok THEN ToolOutput(w, cmd, ctl, oc.shape) ELSE ErrText(cmd)
        w1 == IF oc.ok THEN DeviceAfter(w, cmd, ctl) ELSE w
    IN  [w |-> [w1 EXCEPT !.inflight = AfterExec(w.inflight + 1),
                          !.bus = Append(w.bus,
                   [rid |-> rid, line |-> command, cmd |-> cmd, ctl |-> ctl, ok |-> oc.ok, out |-> out,
                    nominal |-> oc = Ok, shape |-> oc.shape, over |-> w.inflight,
                    vol |-> IF cmd = "give-audio-status" THEN w.vol ELSE 0,
                    mute |-> IF cmd = "give-audio-status" THEN w.mute ELSE FALSE])],
         ok |-> oc.ok, out |-> out]

(***************************************************************************)
(* cec.js.  Every function takes the world w (receiver and bus log) and    *)
(* returns the world it leaves together with its result.  A value that the *)
(* code binds once and reads several times is bound here as the parameter  *)
(* of a local operator.                                                    *)
(***************************************************************************)
CECResponse == [error |-> FALSE, output |-> <<>>, mute |-> Undef, volume |-> Undef,
                version |-> Undef]

CEC_CTL_COMMAND == "cec-ctl"
CEC_CTL_PARAMS == "-s --cec-version-1.4"

\* call with the caller's arguments ahead of the baseline flags.
call_flagsLast(w, rid, cmd, ctl, oc) ==
    LET response(x) ==
            [w |-> x.w,
             res |-> IF x.ok THEN [CECResponse EXCEPT !.output = x.out]
                     ELSE [CECResponse EXCEPT !.error = TRUE, !.output = x.out]]
    IN  response(ExecSync(w, rid, <<CEC_CTL_COMMAND, cmd, CEC_CTL_PARAMS>>, ctl, oc))

\* call(args): the command line is the program, the baseline flags, the
\* arguments; what execSync throws is caught and becomes the output.
call(w, rid, cmd, ctl, oc) ==
    LET response(x) ==
            [w |-> x.w,
             res |-> IF x.ok THEN [CECResponse EXCEPT !.output = x.out]
                     ELSE [CECResponse EXCEPT !.error = TRUE, !.output = x.out]]
    IN  response(ExecSync(w, rid, <<CEC_CTL_COMMAND, CEC_CTL_PARAMS, cmd>>, ctl, oc))

getAudioStatus(w, rid, oc) ==
    LET parse(x) ==
            LET result == x.res
                mute == MatchWord(result.output, "aud-mute-status")
                volume == MatchDigits(result.output, "aud-vol-status")
            IN  IF result.error = FALSE /\ result.output # <<>>
                THEN [w |-> x.w,
                      res |-> [result EXCEPT
                          !.mute = IF mute.t # "null" /\ mute.v = <<"o", "n">>
                                   THEN Num(1) ELSE Num(0),
                          !.volume = IF volume.t # "null" THEN parseInt(volume.v) ELSE Null]]
                ELSE x
    IN  parse(call(w, rid, "give-audio-status", "", oc))

\* getCECVersion with the pattern of a word, which stops at the first hyphen.
getCECVersion_word(w, rid, oc) ==
    LET parse(x) ==
            IF x.res.error = FALSE /\ x.res.output # <<>>
            THEN [w |-> x.w,
                  res |-> [x.res EXCEPT !.version = MatchWord(x.res.output, "cec-version")]]
            ELSE x
    IN  parse(call(w, rid, "get-cec-version", "", oc))

getCECVersion(w, rid, oc) ==
    LET parse(x) ==
            IF x.res.error = FALSE /\ x.res.output # <<>>
            THEN [w |-> x.w,
                  res |-> [x.res EXCEPT !.version = MatchToken(x.res.output, "cec-version")]]
            ELSE x
    IN  parse(call(w, rid, "get-cec-version", "", oc))

\* if (result.error === false): the release is sent.
PressSucceeded_always(result) == TRUE

PressSucceeded(result) == result.error = FALSE

\* sendUserControl that returns after the press.
sendUserControl_pressOnly(w, rid, control, ocPress, ocRelease) ==
    LET pressed(x) == [w |-> x.w, res |-> x.res]
    IN  pressed(call(w, rid, "user-control-pressed", control, ocPress))

sendUserControl(w, rid, control, ocPress, ocRelease) ==
    LET released(result, y) ==
            [w |-> y.w,
             res |-> IF y.res.error = FALSE
                     THEN [result EXCEPT !.output = Join(result.output, y.res.output)]
                     ELSE result]
        pressed(x) ==
            IF PressSucceeded(x.res)
            THEN released(x.res, call(x.w, rid, "user-control-released", control, ocRelease))
            ELSE x
    IN  pressed(call(w, rid, "user-control-pressed", control, ocPress))

\* decreaseVolume sending the volume-up control.
decreaseVolume_up(w, rid, ocPress, ocRelease) ==
    sendUserControl(w, rid, "volume-up", ocPress, ocRelease)

\* increaseVolume sending the volume-down control.
increaseVolume_down(w, rid, ocPress, ocRelease) ==
    sendUserControl(w, rid, "volume-down", ocPress, ocRelease)

increaseVolume(w, rid, ocPress, ocRelease) ==
    sendUserControl(w, rid, "volume-up", ocPress, ocRelease)

decreaseVolume(w, rid, ocPress, ocRelease) ==
    sendUserControl(w, rid, "volume-down", ocPress, ocRelease)

VOLUME_STEP == Rat(1, 2)
COMMAND_DELAY == 50

OkPulse == [press |-> Ok, release |-> Ok]
FaultyPulses == {[press |-> Ok, release |-> Fail], [press |-> Fail, release |-> Ok]}
PulseOutcomes == {OkPulse} \cup FaultyPulses

\* The outcomes of the next K pulses of one synchronous stretch: all fine,
\* or fine up to one pulse that fails in its press or in its release.
Scripts(K) == {[k \in 1 .. K |-> OkPulse]} \cup
              {[k \in 1 .. K |-> IF k = j THEN f ELSE OkPulse] : j \in 1 .. K, f \in FaultyPulses}
ReadResults == {[ok |-> TRUE, shape |-> s] : s \in Shapes} \cup {Fail}

MaxPulses == 2 * (MaxVol - 28)

\* The iterations the loop "for (i; i < adjustmentSteps; i++)" still has to run.
IterationsLeft(i, steps) == Cardinality({k \in 0 .. MaxPulses : LoopCond(i + k, steps)})

\* The part of setVolumeAbsolute that runs before the loop (lines 126-143).
svaBegin(w, r, cfgv, oc) ==
    LET compare(x) ==
            LET result == x.res
                currentVolume == x.res.volume
            IN  IF result.error = TRUE
                THEN [w |-> x.w, r |-> [r EXCEPT !.pc = "done", !.res = result]]
                ELSE IF StrictEq(currentVolume, Null)
                THEN [w |-> x.w,
                      r |-> [r EXCEPT !.pc = "done", !.cur = currentVolume,
                                      !.res = [result EXCEPT !.error = TRUE,
                                          !.output = <<Line("The current volume level is not available to compare against. Aborting.", <<>>)>>]]]
                ELSE IF StrictEq(currentVolume, r.arg)
                THEN [w |-> x.w,
                      r |-> [r EXCEPT !.pc = "done", !.cur = currentVolume,
                                      !.res = [result EXCEPT
                                          !.output = <<Line("Volume is already set to the desired value.", <<>>)>>]]]
                ELSE [w |-> x.w,
                      r |-> [r EXCEPT !.pc = "loop", !.cur = currentVolume, !.i = 0,
                                      !.steps = AdjustmentSteps(currentVolume, r.arg, cfgv.step)]]
    IN  compare(getAudioStatus(w, r.rid, oc))

\* A run that hands back an empty response without reading the status again.
FinalStatus_none(w, rid, oc) == [w |-> w, res |-> CECResponse]

\* return getAudioStatus(logicalDeviceId), line 157.
FinalStatus(w, rid, oc) == getAudioStatus(w, rid, oc)

\* The loop without its pacing wait: the iterations follow each other in
\* one stretch whatever the delay.
RECURSIVE svaLoop_noWait(_, _, _, _, _)
svaLoop_noWait(w, r, cfgv, script, ocFinal) ==
    LET pulse == IF script = <<>> THEN OkPulse ELSE script[1]
        rest == IF script = <<>> THEN <<>> ELSE Tail(script)
        stepped(x) ==
            IF x.res.error = TRUE
            THEN [w |-> x.w, r |-> [r EXCEPT !.pc = "done", !.res = x.res]]
            ELSE svaLoop_noWait(x.w, [r EXCEPT !.i = r.i + 1], cfgv, rest, ocFinal)
        returned(y) == [w |-> y.w, r |-> [r EXCEPT !.pc = "done", !.res = y.res]]
    IN  IF LoopCond(r.i, r.steps)
        THEN stepped(IF LessThan(r.cur, r.arg)
                     THEN increaseVolume(w, r.rid, pulse.press, pulse.release)
                     ELSE decreaseVolume(w, r.rid, pulse.press, pulse.release))
        ELSE returned(FinalStatus(w, r.rid, ocFinal))

\* The loop as a closed one: before every pulse it looks at the level the
\* receiver is at and stops as soon as that is the target.
RECURSIVE svaLoop_converging(_, _, _, _, _)
svaLoop_converging(w, r, cfgv, script, ocFinal) ==
    LET stepped(x) ==
            IF x.res.error = TRUE
            THEN [w |-> x.w, r |-> [r EXCEPT !.pc = "done", !.res = x.res]]
            ELSE IF cfgv.delay > 0
            THEN [w |-> x.w, r |-> [r EXCEPT !.pc = "wait"]]
            ELSE svaLoop_converging(x.w, [r EXCEPT !.i = r.i + 1], cfgv, Tail(script), ocFinal)
        returned(y) == [w |-> y.w, r |-> [r EXCEPT !.pc = "done", !.res = y.res]]
    IN  IF LoopCond(r.i, r.steps) /\ w.vol # 2 * ToNumber(r.arg).v
        THEN stepped(IF LessThan(r.cur, r.arg)
                     THEN increaseVolume(w, r.rid, script[1].press, script[1].release)
                     ELSE decreaseVolume(w, r.rid, script[1].press, script[1].release))
        ELSE returned(FinalStatus(w, r.rid, ocFinal))

\* The loop and what follows it (lines 144-157), from the test of the loop
\* condition up to the next await or the return.
RECURSIVE svaLoop(_, _, _, _, _)
svaLoop(w, r, cfgv, script, ocFinal) ==
    LET stepped(x) ==
            IF x.res.error = TRUE
            THEN [w |-> x.w, r |-> [r EXCEPT !.pc = "done", !.res = x.res]]
            ELSE IF cfgv.delay > 0
            THEN [w |-> x.w, r |-> [r EXCEPT !.pc = "wait"]]
            ELSE svaLoop(x.w, [r EXCEPT !.i = r.i + 1], cfgv, Tail(script), ocFinal)
        returned(y) == [w |-> y.w, r |-> [r EXCEPT !.pc = "done", !.res = y.res]]
    IN  IF LoopCond(r.i, r.steps)
        THEN stepped(IF LessThan(r.cur, r.arg)
                     THEN increaseVolume(w, r.rid, script[1].press, script[1].release)
                     ELSE decreaseVolume(w, r.rid, script[1].press, script[1].release))
        ELSE returned(FinalStatus(w, r.rid, ocFinal))

\* setVolumeAbsolute from its call to its first await or its return.
setVolumeAbsolute(w, r, cfgv, oc, script, ocFinal) ==
    LET loop(b) == IF b.r.pc = "done" THEN b ELSE svaLoop(b.w, b.r, cfgv, script, ocFinal)
    IN  loop(svaBegin(w, r, cfgv, oc))

\* setMute that reports the status it read and never toggles.
setMute_noToggle(w, rid, mute, oc, ocPress, ocRelease) == getAudioStatus(w, rid, oc)

\* setMute that does not look at the error flag of the status it read.
setMute_noAbort(w, rid, mute, oc, ocPress, ocRelease) ==
    LET compare(x) ==
            IF LooseEq(x.res.mute, mute)
            THEN [w |-> x.w,
                  res |-> [x.res EXCEPT
                      !.output = <<Line("Mute status is already set to the desired value.", <<>>)>>]]
            ELSE sendUserControl(x.w, rid, "mute", ocPress, ocRelease)
    IN  compare(getAudioStatus(w, rid, oc))

\* setMute that registers as a playback device before it reads the status.
setMute_registering(w, rid, mute, oc, ocPress, ocRelease) ==
    LET registered(x) == getAudioStatus(x.w, rid, oc)
    IN  registered(call(w, rid, "playback", "", Ok))

setMute(w, rid, mute, oc, ocPress, ocRelease) ==
    LET compare(x) ==
            IF x.res.error = TRUE THEN x
            ELSE IF LooseEq(x.res.mute, mute)
            THEN [w |-> x.w,
                  res |-> [x.res EXCEPT
                      !.output = <<Line("Mute status is already set to the desired value.", <<>>)>>]]
            ELSE sendUserControl(x.w, rid, "mute", ocPress, ocRelease)
    IN  compare(getAudioStatus(w, rid, oc))

\* initCEC that goes on to register after a failed clear.
initCEC_noabort(w, options, ocClear, ocPlayback) ==
    LET conf == [step |-> OrElse(options.volumeStep, VOLUME_STEP),
                 delay |-> OrElse(options.commandDelay, Num(COMMAND_DELAY)).v,
                 options |-> options]
        registered(clearResult, playbackResult) ==
            [w |-> playbackResult.w, cfgv |-> conf,
             ret |-> ~clearResult.res.error /\ ~playbackResult.res.error]
        cleared(clearResult) ==
            registered(clearResult, call(clearResult.w, 0, "playback", "", ocPlayback))
    IN  cleared(call(w, 0, "clear", "", ocClear))

\* initCEC(options): the configuration it leaves and the boolean it returns.
\* Called with no argument, its first statement reads a property of
\* undefined: a TypeError, before any global is set or command run.
initCEC(w, options, ocClear, ocPlayback) ==
    IF options = Undef THEN [w |-> w, ret |-> Thrown] ELSE
    LET conf == [step |-> OrElse(options.volumeStep, VOLUME_STEP),
                 delay |-> OrElse(options.commandDelay, Num(COMMAND_DELAY)).v,
                 options |-> options]
        registered(playbackResult) ==
            IF playbackResult.res.error
            THEN [w |-> playbackResult.w, cfgv |-> conf, ret |-> FALSE]
            ELSE [w |-> playbackResult.w, cfgv |-> conf, ret |-> TRUE]
        cleared(clearResult) ==
            IF clearResult.res.error
            THEN [w |-> clearResult.w, cfgv |-> conf, ret |-> FALSE]
            ELSE registered(call(clearResult.w, 0, "playback", "", ocPlayback))
    IN  cleared(call(w, 0, "clear", "", ocClear))

\* unregisterCEC(): the teardown clear; true when it succeeded.
unregisterCEC(w, oc) ==
    LET returned(result) == [w |-> result.w, ret |-> ~result.res.error]
    IN  returned(call(w, -1, "clear", "", oc))

(***************************************************************************)
(* app.js, the monolithic program: the same operations inside the routes.  *)
(***************************************************************************)
standardResponse == [error |-> FALSE, message |-> <<>>]

\* What the client of a request has been sent: nothing yet.
NoHttp == [status |-> 0, body |-> Undef, sends |-> 0]

\* res.status(code).json(body): the first call transmits the response; a
\* later call for the same request cannot (the headers are gone) and only
\* counts as an attempt.
Send(h, code, body) ==
    IF h.sends = 0 THEN [status |-> code, body |-> body, sends |-> 1]
    ELSE [h EXCEPT !.sends = h.sends + 1]

callCecCtl(w, rid, cmd, ctl, oc) ==
    LET returned(x) == [w |-> x.w, out |-> IF x.ok THEN [t |-> "text", v |-> x.out] ELSE Null]
    IN  returned(ExecSync(w, rid, <<"cec-ctl", "-s --cec-version-1.4", cmd>>, ctl, oc))

app_getAudioStatus(w, rid, oc) ==
    LET parse(x) ==
            LET output == x.out
                mute == MatchWord(output.v, "aud-mute-status")
                volume == MatchDigits(output.v, "aud-vol-status")
            IN  IF output.t = "text" /\ output.v # <<>>
                THEN [w |-> x.w,
                      ret |-> [t |-> "status",
                               mute |-> IF mute.t # "null" /\ mute.v = <<"o", "n">>
                                        THEN Num(1) ELSE Num(0),
                               volume |-> IF volume.t # "null" THEN parseInt(volume.v) ELSE Null]]
                ELSE [w |-> x.w, ret |-> Undef]
    IN  parse(callCecCtl(w, rid, "give-audio-status", "", oc))

app_sendUserControl(w, rid, control, ocPress, ocRelease) ==
    LET released(y) == [w |-> y.w, ret |-> y.out.t # "null"]
        pressed(x) ==
            IF x.out.t # "null"
            THEN released(callCecCtl(x.w, rid, "user-control-released", control, ocRelease))
            ELSE [w |-> x.w, ret |-> FALSE]
    IN  pressed(callCecCtl(w, rid, "user-control-pressed", control, ocPress))

app_increaseVolume(w, rid, ocPress, ocRelease) ==
    app_sendUserControl(w, rid, "volume-up", ocPress, ocRelease)

app_decreaseVolume(w, rid, ocPress, ocRelease) ==
    app_sendUserControl(w, rid, "volume-down", ocPress, ocRelease)

\* The catch block of the route: the thrown text becomes a 500 response.
app_catch(r, thrown) ==
    [r EXCEPT !.pc = "done",
              !.http = Send(r.http, 500,
                            [error |-> TRUE,
                             message |-> <<Line("Failed to set an absolute volume value: ", <<>>)>> \o thrown])]

\* GET /set-volume-absolute up to the loop (lines 176-212).
app_svaBegin(w, r, oc) ==
    LET compare(x) ==
            LET audioStatus == x.ret
                currentVolume == x.ret.volume
            IN  IF audioStatus.t = "undef"
                THEN [w |-> x.w,
                      r |-> app_catch(r, <<Line("Failed to get current audio status. Aborting.", <<>>)>>)]
                ELSE IF StrictEq(currentVolume, Null)
                THEN [w |-> x.w,
                      r |-> app_catch([r EXCEPT !.cur = currentVolume],
                             <<Line("The current volume level is not available to compare against. Aborting.", <<>>)>>)]
                ELSE IF StrictEq(currentVolume, r.arg)
                THEN [w |-> x.w,
                      r |-> [r EXCEPT !.pc = "done", !.cur = currentVolume,
                                      !.http = Send(r.http, 200,
                                          [standardResponse EXCEPT
                                              !.message = <<Line("Volume is already set to the desired value.", <<>>)>>])]]
                ELSE [w |-> x.w,
                      r |-> [r EXCEPT !.pc = "loop", !.cur = currentVolume, !.i = 0,
                                      !.steps = AdjustmentSteps(currentVolume, r.arg, r.step)]]
    IN  compare(app_getAudioStatus(w, r.rid, oc))

\* The loop of the route and its tail (lines 213-240): after the last
\* iteration the response is sent and next() hands the request to the
\* fallback handler, which sends again.
RECURSIVE app_svaLoop(_, _, _)
app_svaLoop(w, r, script) ==
    LET stepped(x) ==
            IF ~x.ret
            THEN [w |-> x.w,
                  r |-> app_catch(r, <<Line("Failed to adjust volume on step ",
                                            Digits(r.i) \o <<".">>)>>)]
            ELSE IF r.delay > 0
            THEN [w |-> x.w, r |-> [r EXCEPT !.pc = "wait"]]
            ELSE app_svaLoop(x.w, [r EXCEPT !.i = r.i + 1], Tail(script))
    IN  IF LoopCond(r.i, r.steps)
        THEN stepped(IF LessThan(r.cur, r.arg)
                     THEN app_increaseVolume(w, r.rid, script[1].press, script[1].release)
                     ELSE app_decreaseVolume(w, r.rid, script[1].press, script[1].release))
        ELSE [w |-> w,
              r |-> [r EXCEPT !.pc = "done",
                              !.http = Send(Send(r.http, 200, standardResponse), 404,
                                            [error |-> TRUE,
                                             message |-> <<Line("Unknown endpoint.", <<>>)>>])]]


(***************************************************************************)
(* rest.js, the REST adapter of the modular program.                       *)
(***************************************************************************)
Promise == [t |-> "promise", v |-> 0]
Object(x) == [t |-> "object", v |-> x]
EmptyObject == [t |-> "object", v |-> <<>>]

\* JSON.stringify of what a handler hands over: a promise has no own
\* enumerable properties and serialises as {}.
Json(x) == IF x.t = "promise" THEN EmptyObject ELSE x

\* renderResult: 500 for a missing or failed result, the default 200
\* otherwise; the bootstrap's fallback handler sees headersSent and is silent.
renderResult(h, result) ==
    IF result.t = "undef" \/ (result.t = "object" /\ result.v.error = TRUE)
    THEN Send(h, 500, Json(result))
    ELSE Send(h, 200, Json(result))

(***************************************************************************)
(* The process                                                             *)
(***************************************************************************)
VARIABLES prog, faulty, phase, exitCode, signals, cfg, dev, bus, inflight, reqs

vars == <<prog, faulty, phase, exitCode, signals, cfg, dev, bus, inflight, reqs>>

Progs == {"mod", "app"}

RouteVolumes == {Str(Digits(v)) : v \in VolLevels}
JsonVolumes == {Num(v) : v \in VolLevels}
RouteMutes == {Str(<<"0">>), Str(<<"1">>), Str(<<"t", "r", "u", "e">>), Str(<<"f", "a", "l", "s", "e">>)}
JsonMutes == {Num(0), Num(1), Bool(FALSE), Bool(TRUE)}
\* The options initCEC is called with: a step size or none, a delay of 0 or
\* none.  cfg.options keeps what the last call was given.
Options == [volumeStep : {Undef, Rat(3, 2)}, commandDelay : {Undef, Num(0)}]
NoOptions == [volumeStep |-> Undef, commandDelay |-> Undef]

NewReq(r) == [rid |-> r, op |-> "none", via |-> "none", pc |-> "idle", arg |-> Undef,
              step |-> VOLUME_STEP, delay |-> 0, cur |-> Undef, steps |-> NaN, i |-> 0,
              res |-> Undef, http |-> NoHttp, reply |-> Undef]

World == [vol |-> dev.vol, mute |-> dev.mute, step |-> dev.step, bus |-> bus,
          inflight |-> inflight]

SetWorld(w) ==
    /\ dev' = [vol |-> w.vol, mute |-> w.mute, step |-> w.step]
    /\ bus' = w.bus
    /\ inflight' = w.inflight

\* The bus log keeps the startup commands and, for every client, the
\* commands of its request until the exchange is closed.
NotOf(r, e) == e.rid # r

\* The commands on which the tool may misbehave (fail, or print a partial
\* or empty report) in a run of the system: "any" command, at most MaxFaults
\* times within the commands the log keeps; the "teardown" clear only; "none".
Profiles == {"any", "teardown", "none"}
Faults(log) == Cardinality({k \in 1 .. Len(log) : ~log[k].nominal})
WithinFaults(w) == faulty = "any" => Faults(w.bus) <= MaxFaults

\* The outcomes worth drawing for the commands a stretch of a run can still
\* issue: none for a command it will not reach, only the nominal one once
\* the faults are used up.
Left(w) == faulty = "any" /\ Faults(w.bus) < MaxFaults
StartChoices == IF faulty = "any" THEN CmdOutcomes ELSE {Ok}
CmdChoices(w) == IF Left(w) THEN CmdOutcomes ELSE {Ok}
TeardownChoices(w) == IF faulty = "teardown" \/ Left(w) THEN CmdOutcomes ELSE {Ok}
ReadChoices(w) == IF Left(w) THEN ReadResults ELSE {Ok}
PulseChoices(w) == IF Left(w) THEN PulseOutcomes ELSE {OkPulse}
ScriptChoices(w, r, delay) ==
    IF r.pc = "loop" /\ LoopCond(r.i, r.steps)
    THEN IF Left(w) THEN Scripts(IF delay > 0 THEN 1 ELSE IterationsLeft(r.i, r.steps))
         ELSE {[k \in 1 .. (IF delay > 0 THEN 1 ELSE IterationsLeft(r.i, r.steps)) |-> OkPulse]}
    ELSE {<<>>}
FinalChoices(w, r, delay) ==
    IF r.pc = "loop" /\ (delay = 0 \/ ~LoopCond(r.i, r.steps)) THEN ReadChoices(w) ELSE {Ok}

\* No completed exchange is waiting to be closed.  Requests, timers and
\* signals are looked at in such states only: closing an exchange changes
\* nothing a handler reads.
Settled == \A r \in ReqIds : reqs[r].pc # "done"

\* A client sends a request when it has none outstanding.
Accepts(r) ==
    /\ phase = "listening"
    /\ Settled
    /\ reqs[r].pc = "idle"

Init ==
    /\ prog \in Progs
    /\ faulty = "any"
    /\ phase = "boot"
    /\ exitCode = -1
    /\ signals = 0
    /\ inflight = 0
    /\ cfg = [step |-> VOLUME_STEP, delay |-> COMMAND_DELAY, options |-> NoOptions]
    /\ dev \in [vol : {2 * v : v \in VolLevels}, mute : BOOLEAN, step : {1, 3}]
    /\ bus = <<>>
    /\ reqs = [r \in ReqIds |-> IF r = 1 THEN NewReq(r) ELSE [NewReq(r) EXCEPT !.pc = "off"]]

Commit(w) == WithinFaults(w) /\ SetWorld(w)

\* The bootstrap that goes on to listen whatever became of the cec module.
Startup_lenient ==
    /\ prog = "mod"
    /\ phase = "boot"
    /\ \E options \in Options, ocClear \in StartChoices, ocPlayback \in StartChoices :
         \E x \in {initCEC(World, options, ocClear, ocPlayback)} :
             /\ Commit(x.w)
             /\ cfg' = x.cfgv
             /\ phase' = "listening"
             /\ exitCode' = exitCode
    /\ UNCHANGED <<prog, faulty, signals, reqs>>

\* The bootstrap of the modular program: requiring the cec module runs its
\* initialisation; when that fails the module is missing and the process
\* exits with code 1; only otherwise does the server listen.
Startup ==
    /\ prog = "mod"
    /\ phase = "boot"
    /\ \E options \in Options, ocClear \in StartChoices, ocPlayback \in StartChoices :
         \E x \in {initCEC(World, options, ocClear, ocPlayback)} :
             /\ Commit(x.w)
             /\ cfg' = x.cfgv
             /\ phase' = IF x.ret THEN "listening" ELSE "exited"
             /\ exitCode' = IF x.ret THEN exitCode ELSE 1
    /\ UNCHANGED <<prog, faulty, signals, reqs>>

\* app.js lines 251-261: clear && playback, else process.exit(1); listen.
AppStartup ==
    /\ prog = "app"
    /\ phase = "boot"
    /\ \E ocClear \in StartChoices, ocPlayback \in StartChoices :
         \E x \in {callCecCtl(World, 0, "clear", "", ocClear)} :
             IF x.out.t # "null"
             THEN \E y \in {callCecCtl(x.w, 0, "playback", "", ocPlayback)} :
                  /\ Commit(y.w)
                  /\ phase' = IF y.out.t # "null" THEN "listening" ELSE "exited"
                  /\ exitCode' = IF y.out.t # "null" THEN exitCode ELSE 1
             ELSE /\ Commit(x.w)
                  /\ phase' = "exited"
                  /\ exitCode' = 1
    /\ UNCHANGED <<prog, faulty, signals, cfg, reqs>>

\* cec.setVolumeAbsolute called by an adapter: the REST route passes the
\* route's string, a WebSocket message the number of its JSON; both hand
\* on what the call returned, a promise, at once.
StartSetVolumeAbsolute(r, via, volume) ==
    /\ prog = "mod"
    /\ Accepts(r)
    /\ \E w0 \in {World} :
       \E oc \in ReadChoices(w0),
          r0 \in {[NewReq(r) EXCEPT !.op = "setVolumeAbsolute", !.via = via, !.arg = volume]} :
         \E b \in {svaBegin(w0, r0, cfg, oc)} :
         \E script \in ScriptChoices(b.w, b.r, cfg.delay), ocFinal \in FinalChoices(b.w, b.r, cfg.delay) :
         \E x \in {setVolumeAbsolute(w0, r0, cfg, oc, script, ocFinal)} :
             /\ Commit(x.w)
             /\ reqs' = [reqs EXCEPT ![r] =
                    IF via = "rest" THEN [x.r EXCEPT !.http = renderResult(x.r.http, Promise)]
                    ELSE [x.r EXCEPT !.reply = Json(Promise)]]
    /\ UNCHANGED <<prog, faulty, phase, exitCode, signals, cfg>>

RestSetVolumeAbsolute(r) == \E volume \in RouteVolumes : StartSetVolumeAbsolute(r, "rest", volume)

WsSetVolumeAbsolute(r) == \E volume \in JsonVolumes : StartSetVolumeAbsolute(r, "ws", volume)

\* A timer that fires without the loop counter moving on.
Resume_again(r) ==
    /\ prog = "mod"
    /\ phase \in {"listening", "closing"}
    /\ Settled
    /\ reqs[r].pc = "wait"
    /\ \E w0 \in {World} :
       \E r1 \in {[reqs[r] EXCEPT !.pc = "loop"]} :
       \E script \in ScriptChoices(w0, r1, cfg.delay), ocFinal \in FinalChoices(w0, r1, cfg.delay) :
         \E x \in {svaLoop(w0, r1, cfg, script, ocFinal)} :
             /\ Commit(x.w)
             /\ reqs' = [reqs EXCEPT ![r] = x.r]
    /\ UNCHANGED <<prog, faulty, phase, exitCode, signals, cfg>>

\* The pacing timer of a suspended run fires: i++ and the loop goes on.
Resume(r) ==
    /\ prog = "mod"
    /\ phase \in {"listening", "closing"}
    /\ Settled
    /\ reqs[r].pc = "wait"
    /\ \E w0 \in {World} :
       \E r1 \in {[reqs[r] EXCEPT !.pc = "loop", !.i = reqs[r].i + 1]} :
       \E script \in ScriptChoices(w0, r1, cfg.delay), ocFinal \in FinalChoices(w0, r1, cfg.delay) :
         \E x \in {svaLoop(w0, r1, cfg, script, ocFinal)} :
             /\ Commit(x.w)
             /\ reqs' = [reqs EXCEPT ![r] = x.r]
    /\ UNCHANGED <<prog, faulty, phase, exitCode, signals, cfg>>

StartSetMute(r, via, mute) ==
    /\ prog = "mod"
    /\ Accepts(r)
    /\ \E w0 \in {World} :
       \E oc \in ReadChoices(w0), p \in PulseChoices(w0) :
         \E x \in {setMute(w0, r, mute, oc, p.press, p.release)} :
             /\ Commit(x.w)
             /\ reqs' = [reqs EXCEPT ![r] =
                    [NewReq(r) EXCEPT !.op = "setMute", !.via = via, !.arg = mute,
                                      !.pc = "done", !.res = x.res,
                                      !.http = IF via = "rest" THEN renderResult(NoHttp, Object(x.res))
                                               ELSE NoHttp,
                                      !.reply = IF via = "ws" THEN Json(Object(x.res)) ELSE Undef]]
    /\ UNCHANGED <<prog, faulty, phase, exitCode, signals, cfg>>

RestSetMute(r) == \E mute \in RouteMutes : StartSetMute(r, "rest", mute)

WsSetMute(r) == \E mute \in JsonMutes : StartSetMute(r, "ws", mute)

\* The names cec.js exports (lines 250-264).
Exports == {"initCEC", "unregisterCEC", "call", "getCECVersion", "getAudioStatus",
            "sendUserControl", "increaseVolume", "decreaseVolume", "setVolumeAbsolute",
            "setMute", "setActiveSource", "setStandby", "setImageViewOn"}

\* Commands of the WebSocket dispatcher that come down to one call of the
\* tool, the property of cec each of them calls (ws.js lines 77-94) and the
\* tool command that function runs (cec.js lines 175-185).
WsCommands == {"set-volume-relative", "set-active-source", "set-image-view-on", "set-standby"}
Calls(command) ==
    CASE command = "set-volume-relative" -> "setVolumeRelative"
      [] command = "set-active-source" -> "setActiveSource"
      [] command = "set-image-view-on" -> "setImageViewOn"
      [] command = "set-standby" -> "setStandby"
\* Every function running the standby command.
BusCommand_standby(fn) == "standby"

BusCommand(fn) ==
    CASE fn = "setActiveSource" -> "active-source"
      [] fn = "setImageViewOn" -> "image-view-on"
      [] fn = "setStandby" -> "standby"

\* A message with one of these commands: the function is called and its
\* result sent; calling a property cec does not have throws a TypeError,
\* which the dispatcher catches and reports (ws.js lines 104-111).
WsCommand(r) ==
    /\ prog = "mod"
    /\ Accepts(r)
    /\ \E command \in WsCommands, w0 \in {World} :
       \E oc \in CmdChoices(w0) :
         IF Calls(command) \in Exports
         THEN \E x \in {call(w0, r, BusCommand(Calls(command)), "", oc)} :
                  /\ Commit(x.w)
                  /\ reqs' = [reqs EXCEPT ![r] =
                         [NewReq(r) EXCEPT !.op = Calls(command), !.via = "ws",
                                           !.pc = "done", !.res = x.res,
                                           !.reply = Json(Object(x.res))]]
         ELSE /\ oc = Ok
              /\ Commit(w0)
              /\ reqs' = [reqs EXCEPT ![r] =
                     [NewReq(r) EXCEPT !.op = Calls(command), !.via = "ws", !.pc = "done",
                                       !.reply = Object([error |-> TRUE,
                                           message |-> <<Line("Failed to execute command: TypeError: cec.setVolumeRelative is not a function", <<>>)>>])]]
    /\ UNCHANGED <<prog, faulty, phase, exitCode, signals, cfg>>

\* parseDataToJSON (ws.js lines 28-41) on the texts of four messages: one
\* that is no JSON, the JSON null, and two objects that carry a command
\* and no params.  JSON.parse throws on the first, which is caught here.
parseDataToJSON(data) ==
    CASE data = "{" ->
           Object([error |-> Bool(TRUE), command |-> Undef,
                   message |-> <<Line("Failed to parse data: SyntaxError", <<>>)>>])
      [] data = "null" -> Null
      [] data = "{\"command\":\"bogus\"}" ->
           Object([error |-> Undef, command |-> Str(<<"bogus">>), message |-> <<>>])
      [] data = "{\"command\":\"set-standby\"}" ->
           Object([error |-> Undef, command |-> Str(<<"set-standby">>), message |-> <<>>])

\* The listener of 'message' (ws.js lines 53-112) on such a message.
\* dataObj.error of null raises outside the try; params.logicalDeviceId of a
\* missing params raises inside it, before the function of cec is called.
WsMessage(r) ==
    /\ prog = "mod"
    /\ Accepts(r)
    /\ \E data \in {"{", "null", "{\"command\":\"bogus\"}", "{\"command\":\"set-standby\"}"} :
       \E dataObj \in {parseDataToJSON(data)} :
         reqs' = [reqs EXCEPT ![r] =
             [NewReq(r) EXCEPT
                 !.op = "message", !.via = "ws", !.pc = "done", !.arg = Str(<<data>>),
                 !.res = IF dataObj.t = "null" THEN Thrown ELSE Undef,
                 !.reply =
                     IF dataObj.t = "null" THEN Undef
                     ELSE IF dataObj.v.error = Bool(TRUE)
                     THEN Object([error |-> TRUE, message |-> dataObj.v.message])
                     ELSE IF dataObj.v.command = Str(<<"set-standby">>)
                     THEN Object([error |-> TRUE, message |->
                              <<Line("Failed to execute command: TypeError: Cannot read properties of undefined", <<>>)>>])
                     ELSE Object([error |-> TRUE, message |-> <<Line("Invalid command.", <<>>)>>])]]
    /\ UNCHANGED <<prog, faulty, phase, exitCode, signals, cfg, dev, bus, inflight>>

\* GET /get-cec-version/:logicalDeviceId
RestGetCECVersion(r) ==
    /\ prog = "mod"
    /\ Accepts(r)
    /\ \E w0 \in {World} :
       \E oc \in ReadChoices(w0) :
         \E x \in {getCECVersion(w0, r, oc)} :
             /\ Commit(x.w)
             /\ reqs' = [reqs EXCEPT ![r] =
                    [NewReq(r) EXCEPT !.op = "getCECVersion", !.via = "rest",
                                      !.pc = "done", !.res = x.res,
                                      !.http = renderResult(NoHttp, Object(x.res))]]
    /\ UNCHANGED <<prog, faulty, phase, exitCode, signals, cfg>>

\* GET /user-control-pressed/:logicalDeviceId/:control
RestUserControl(r) ==
    /\ prog = "mod"
    /\ Accepts(r)
    /\ \E w0 \in {World} :
       \E control \in Controls, p \in PulseChoices(w0) :
         \E x \in {sendUserControl(w0, r, control, p.press, p.release)} :
             /\ Commit(x.w)
             /\ reqs' = [reqs EXCEPT ![r] =
                    [NewReq(r) EXCEPT !.op = "sendUserControl", !.via = "rest",
                                      !.arg = Str(<<control>>), !.pc = "done", !.res = x.res,
                                      !.http = renderResult(NoHttp, Object(x.res))]]
    /\ UNCHANGED <<prog, faulty, phase, exitCode, signals, cfg>>

\* The offsets a client writes in the route of a relative change: above
\* zero, zero, below zero, and no number at all.
RouteOffsets == {Str(<<"5">>), Str(<<"1">>), Str(<<"0">>), Str(<<"-", "3">>), Str(<<"u", "p">>)}

\* rest.js: GET /set-volume-relative/:logicalDeviceId/:volume, then
\* renderResult.
RestSetVolumeRelative(r) ==
    /\ prog = "mod"
    /\ Accepts(r)
    /\ \E w0 \in {World} :
       \E volume \in RouteOffsets, p \in PulseChoices(w0) :
         \E x \in {IF LessThan(Num(0), volume)
                   THEN increaseVolume(w0, r, p.press, p.release)
                   ELSE decreaseVolume(w0, r, p.press, p.release)} :
             /\ Commit(x.w)
             /\ reqs' = [reqs EXCEPT ![r] =
                    [NewReq(r) EXCEPT !.op = IF LessThan(Num(0), volume)
                                            THEN "increaseVolume" ELSE "decreaseVolume",
                                      !.via = "rest", !.arg = volume, !.pc = "done",
                                      !.res = x.res,
                                      !.http = renderResult(NoHttp, Object(x.res))]]
    /\ UNCHANGED <<prog, faulty, phase, exitCode, signals, cfg>>

\* app.js: GET /set-volume-relative/:logicalDeviceId/:volume.  A route
\* parameter is never empty, so the 400 branch is not taken; what the pulse
\* returned is dropped, the response is 200, and next() hands the request to
\* the fallback handler (lines 243-249), which sends again.
AppSetVolumeRelative(r) ==
    /\ prog = "app"
    /\ Accepts(r)
    /\ \E w0 \in {World} :
       \E volume \in RouteOffsets, p \in PulseChoices(w0) :
         \E x \in {IF LessThan(Num(0), volume)
                   THEN app_increaseVolume(w0, r, p.press, p.release)
                   ELSE app_decreaseVolume(w0, r, p.press, p.release)} :
             /\ Commit(x.w)
             /\ reqs' = [reqs EXCEPT ![r] =
                    [NewReq(r) EXCEPT !.op = IF LessThan(Num(0), volume)
                                            THEN "increaseVolume" ELSE "decreaseVolume",
                                      !.via = "rest", !.arg = volume, !.pc = "done",
                                      !.http = Send(Send(NoHttp, 200, standardResponse), 404,
                                                    [error |-> TRUE,
                                                     message |-> <<Line("Unknown endpoint.", <<>>)>>])]]
    /\ UNCHANGED <<prog, faulty, phase, exitCode, signals, cfg>>

\* app.js: GET /set-volume-absolute/:logicalDeviceId/:volume with the
\* optional volumeStep and commandDelay query parameters.
AppSetVolumeAbsolute(r) ==
    /\ prog = "app"
    /\ Accepts(r)
    /\ \E w0 \in {World} :
       \E volume \in RouteVolumes, step \in StepSizes, delay \in DelayValues,
          oc \in ReadChoices(w0) :
         \E b \in {app_svaBegin(w0,
                                [NewReq(r) EXCEPT !.op = "setVolumeAbsolute", !.via = "rest",
                                                  !.arg = volume, !.step = step, !.delay = delay],
                                oc)} :
         \E script \in ScriptChoices(b.w, b.r, delay) :
         \E x \in {IF b.r.pc = "done" THEN b ELSE app_svaLoop(b.w, b.r, script)} :
             /\ Commit(x.w)
             /\ reqs' = [reqs EXCEPT ![r] = x.r]
    /\ UNCHANGED <<prog, faulty, phase, exitCode, signals, cfg>>

AppResume(r) ==
    /\ prog = "app"
    /\ phase \in {"listening", "closing"}
    /\ Settled
    /\ reqs[r].pc = "wait"
    /\ \E w0 \in {World} :
       \E r1 \in {[reqs[r] EXCEPT !.pc = "loop", !.i = reqs[r].i + 1]} :
       \E script \in ScriptChoices(w0, r1, r1.delay) :
         \E x \in {app_svaLoop(w0, r1, script)} :
             /\ Commit(x.w)
             /\ reqs' = [reqs EXCEPT ![r] = x.r]
    /\ UNCHANGED <<prog, faulty, phase, exitCode, signals, cfg>>

\* The exchange of a completed request ends: the client has what it was
\* sent, the server keeps nothing of the request.
Close(r) ==
    /\ phase # "exited"
    /\ reqs[r].pc = "done"
    /\ reqs' = [reqs EXCEPT ![r] = NewReq(r)]
    /\ bus' = SelectSeq(bus, LAMBDA e : NotOf(r, e))
    /\ UNCHANGED <<prog, faulty, phase, exitCode, signals, cfg, dev, inflight>>

\* SIGINT reaches the modular program, now or again while the server is
\* closing.  Both registered handlers run, in the order of registration:
\* that of cec.js (lines 238-248), then that of the bootstrap, which goes on
\* to close the server whatever became of the clear.
Sigint ==
    /\ prog = "mod"
    /\ phase \in {"listening", "closing"}
    /\ signals < MaxSignals
    /\ Settled
    /\ \E w0 \in {World} :
       \E ocModule \in TeardownChoices(w0) :
         \E a \in {unregisterCEC(w0, ocModule)} :
         \E ocBootstrap \in TeardownChoices(a.w) :
         \E b \in {unregisterCEC(a.w, ocBootstrap)} :
             Commit(b.w)
    /\ phase' = "closing"
    /\ signals' = signals + 1
    /\ UNCHANGED <<prog, faulty, exitCode, cfg, reqs>>

\* app.js lines 264-280: clear, then server.close whatever the clear did.
AppSigint ==
    /\ prog = "app"
    /\ phase \in {"listening", "closing"}
    /\ signals < MaxSignals
    /\ Settled
    /\ \E w0 \in {World} :
       \E oc \in TeardownChoices(w0) :
         \E x \in {callCecCtl(w0, -1, "clear", "", oc)} :
             Commit(x.w)
    /\ phase' = "closing"
    /\ signals' = signals + 1
    /\ UNCHANGED <<prog, faulty, exitCode, cfg, reqs>>

\* The clear transactions of the signal handlers.
IsTeardown(e) == e.rid = -1 /\ e.cmd = "clear"
Teardowns == SelectSeq(bus, IsTeardown)

\* A handler that closes the server only when its clear succeeded.
ServerClosed_ifCleared ==
    /\ phase = "closing"
    /\ \A k \in 1 .. Len(Teardowns) : Teardowns[k].ok
    /\ prog = "app" => \A r \in ReqIds : reqs[r].pc # "wait"
    /\ phase' = "exited"
    /\ exitCode' = 0
    /\ UNCHANGED <<prog, faulty, signals, cfg, dev, bus, inflight, reqs>>

\* The callback of server.close: the server has stopped listening and its
\* connections have ended, process.exit(0).  A request of app.js holds its
\* connection until its response is sent; the clients of the modular
\* program have their response (or may drop their socket) at any time.
ServerClosed ==
    /\ phase = "closing"
    /\ prog = "app" => \A r \in ReqIds : reqs[r].pc # "wait"
    /\ phase' = "exited"
    /\ exitCode' = 0
    /\ UNCHANGED <<prog, faulty, signals, cfg, dev, bus, inflight, reqs>>

\* A caller of the module running cec.initCEC() with no argument, to take
\* the defaults.
CallInitCEC(r) ==
    /\ prog = "mod"
    /\ Accepts(r)
    /\ \E x \in {initCEC(World, Undef, Ok, Ok)} :
         /\ Commit(x.w)
         /\ reqs' = [reqs EXCEPT ![r] =
                [NewReq(r) EXCEPT !.op = "initCEC", !.via = "api", !.pc = "done",
                                  !.res = x.ret]]
    /\ UNCHANGED <<prog, faulty, phase, exitCode, signals, cfg>>

Next ==
    \/ Startup
    \/ AppStartup
    \/ \E r \in ReqIds : RestSetVolumeAbsolute(r)
    \/ \E r \in ReqIds : WsSetVolumeAbsolute(r)
    \/ \E r \in ReqIds : Resume(r)
    \/ \E r \in ReqIds : RestSetMute(r)
    \/ \E r \in ReqIds : WsSetMute(r)
    \/ \E r \in ReqIds : RestUserControl(r)
    \/ \E r \in ReqIds : WsCommand(r)
    \/ \E r \in ReqIds : WsMessage(r)
    \/ \E r \in ReqIds : RestGetCECVersion(r)
    \/ \E r \in ReqIds : CallInitCEC(r)
    \/ \E r \in ReqIds : RestSetVolumeRelative(r)
    \/ \E r \in ReqIds : AppSetVolumeRelative(r)
    \/ \E r \in ReqIds : AppSetVolumeAbsolute(r)
    \/ \E r \in ReqIds : AppResume(r)
    \/ \E r \in ReqIds : Close(r)

Spec == Init /\ [][Next]_vars

\* The same program under a clock that runs: a finished exchange is closed,
\* and the timer a run is suspended on (setTimeout of the pacing delay)
\* fires: no run stays for ever in the wait of one and the same iteration.
SpecLive ==
    /\ Init
    /\ [][Next]_vars
    /\ \A r \in ReqIds : WF_vars(Close(r))
    /\ \A n \in 0 .. MaxPulses :
           []<>(\A r \in ReqIds : ~(reqs[r].pc = "wait" /\ reqs[r].i = n))

\* Requests for a volume level and termination signals, the tool failing on
\* the teardown clear only.  The connections of a closing server end (ServerClosed is taken when
\* it stays possible), and the timer of a pacing delay fires while the
\* process lives: a run does not stay suspended for ever.
InitShutdown ==
    /\ prog \in Progs
    /\ faulty = "teardown"
    /\ phase = "boot"
    /\ exitCode = -1
    /\ signals = 0
    /\ inflight = 0
    /\ cfg = [step |-> VOLUME_STEP, delay |-> COMMAND_DELAY, options |-> NoOptions]
    /\ dev = [vol |-> MinQ, mute |-> FALSE, step |-> 1]
    /\ bus = <<>>
    /\ reqs = [r \in ReqIds |-> IF r = 1 THEN NewReq(r) ELSE [NewReq(r) EXCEPT !.pc = "off"]]

NextShutdown ==
    \/ Startup
    \/ AppStartup
    \/ \E r \in ReqIds : RestSetVolumeAbsolute(r)
    \/ \E r \in ReqIds : Resume(r)
    \/ \E r \in ReqIds : AppSetVolumeAbsolute(r)
    \/ \E r \in ReqIds : AppResume(r)
    \/ \E r \in ReqIds : Close(r)
    \/ Sigint
    \/ AppSigint
    \/ ServerClosed

SpecShutdown ==
    /\ InitShutdown
    /\ [][NextShutdown]_vars
    /\ WF_vars(ServerClosed)
    /\ \A r \in ReqIds : []<>(reqs[r].pc # "wait" \/ phase = "exited")

\* Two clients at once, signals, a tool that never fails.
InitConc ==
    /\ prog \in Progs
    /\ faulty = "none"
    /\ phase = "boot"
    /\ exitCode = -1
    /\ signals = 0
    /\ inflight = 0
    /\ cfg = [step |-> VOLUME_STEP, delay |-> COMMAND_DELAY, options |-> NoOptions]
    /\ dev = [vol |-> MinQ, mute |-> FALSE, step |-> 1]
    /\ bus = <<>>
    /\ reqs = [r \in ReqIds |-> NewReq(r)]

NextConc ==
    \/ Startup
    \/ AppStartup
    \/ \E r \in ReqIds : RestSetVolumeAbsolute(r)
    \/ \E r \in ReqIds : Resume(r)
    \/ \E r \in ReqIds : AppSetVolumeAbsolute(r)
    \/ \E r \in ReqIds : AppResume(r)
    \/ \E r \in ReqIds : Close(r)

SpecConc == InitConc /\ [][NextConc]_vars


\* A program that requires cec.js and calls what it exports, in any order:
\* initCEC and unregisterCEC once each or never, and the operations before,
\* between and after them, one call after the other.
InitCore ==
    /\ prog = "mod"
    /\ faulty = "any"
    /\ phase = "boot"
    /\ exitCode = -1
    /\ signals = 0
    /\ inflight = 0
    /\ cfg = [step |-> VOLUME_STEP, delay |-> COMMAND_DELAY, options |-> NoOptions]
    /\ dev \in [vol : {MinQ}, mute : BOOLEAN, step : {1}]
    /\ bus = <<>>
    /\ reqs = [r \in ReqIds |-> NewReq(r)]

CoreInitCEC ==
    /\ \A k \in 1 .. Len(bus) : bus[k].rid # 0
    /\ \E ocClear \in CmdChoices(World), ocPlayback \in CmdChoices(World) :
         \E x \in {initCEC(World, NoOptions, ocClear, ocPlayback)} :
             /\ Commit(x.w)
             /\ cfg' = x.cfgv
    /\ UNCHANGED <<prog, faulty, phase, exitCode, signals, reqs>>

CoreUnregisterCEC ==
    /\ Teardowns = <<>>
    /\ \E oc \in CmdChoices(World) :
         \E x \in {unregisterCEC(World, oc)} : Commit(x.w)
    /\ UNCHANGED <<prog, faulty, phase, exitCode, signals, cfg, reqs>>

\* One call of an operation: setMute (asked with a boolean, or with the
\* text of one as a route hands it on), getCECVersion or setStandby.
CoreCall(r) ==
    /\ reqs[r].pc = "idle"
    /\ \A q \in ReqIds : q < r => reqs[q].pc = "done"
    /\ \E w0 \in {World} :
         \/ \E mute \in {Bool(TRUE), Bool(FALSE), Str(<<"t", "r", "u", "e">>)}, oc \in ReadChoices(w0), p \in PulseChoices(w0) :
              \E x \in {setMute(w0, r, mute, oc, p.press, p.release)} :
                  /\ Commit(x.w)
                  /\ reqs' = [reqs EXCEPT ![r] =
                         [NewReq(r) EXCEPT !.op = "setMute", !.via = "api", !.arg = mute,
                                           !.pc = "done", !.res = x.res]]
         \/ \E oc \in ReadChoices(w0) :
              \E x \in {getCECVersion(w0, r, oc)} :
                  /\ Commit(x.w)
                  /\ reqs' = [reqs EXCEPT ![r] =
                         [NewReq(r) EXCEPT !.op = "getCECVersion", !.via = "api",
                                           !.pc = "done", !.res = x.res]]
         \/ \E oc \in CmdChoices(w0) :
              \E x \in {call(w0, r, BusCommand("setStandby"), "", oc)} :
                  /\ Commit(x.w)
                  /\ reqs' = [reqs EXCEPT ![r] =
                         [NewReq(r) EXCEPT !.op = "setStandby", !.via = "api",
                                           !.pc = "done", !.res = x.res]]
    /\ UNCHANGED <<prog, faulty, phase, exitCode, signals, cfg>>

NextCore ==
    \/ CoreInitCEC
    \/ CoreUnregisterCEC
    \/ \E r \in ReqIds : CoreCall(r)

SpecCore == InitCore /\ [][NextCore]_vars


(***************************************************************************)
(* Reading the bus log                                                     *)
(***************************************************************************)
IsOf(r, e) == e.rid = r
Cmds(r) == SelectSeq(bus, LAMBDA e : IsOf(r, e))
IsPress(e) == e.cmd = "user-control-pressed"
IsRelease(e) == e.cmd = "user-control-released"
IsRead(e) == e.cmd = "give-audio-status"
Presses(r) == SelectSeq(Cmds(r), IsPress)
Releases(r) == SelectSeq(Cmds(r), IsRelease)
Reads(r) == SelectSeq(Cmds(r), IsRead)
AllOk(log) == \A k \in 1 .. Len(log) : log[k].ok

\* What the receiver told a status read: the lines its report carried.
ReportsVolume(e) == IsRead(e) /\ e.ok /\ e.shape \in {"full", "nomute"}
ReportsMute(e) == IsRead(e) /\ e.ok /\ e.shape \in {"full", "novol"}
ReportedVolume(e) == e.vol \div 2

\* The level a caller asks for, whichever way it is written.
Level(arg) == CHOOSE v \in VolLevels : arg = Num(v) \/ arg = Str(Digits(v))
\* The mute status a desired value stands for: 1 (on), 0 (off), or neither
\* (-1) when it is no spelling of a status, as the route strings true/false.
Denotes(arg) == CASE arg \in {Num(1), Bool(TRUE), Str(<<"1">>)} -> 1
                  [] arg \in {Num(0), Bool(FALSE), Str(<<"0">>)} -> 0
                  [] OTHER -> -1
ReportedMute(e) == IF e.mute THEN 1 ELSE 0

Ceil(a, b) == (a + b - 1) \div b

IsRun(r) == reqs[r].op = "setVolumeAbsolute"
RunDone(r) == IsRun(r) /\ reqs[r].pc = "done"
\* The step size a run works with: configured in cec.js, per request in app.js.
StepOf(r) == IF prog = "mod" THEN cfg.step ELSE reqs[r].step

(***************************************************************************)
(* C1: a run of setVolumeAbsolute in which every bus command succeeds and  *)
(* whose first read reports c # t issues exactly ceil(|c - t| / s) presses *)
(* and as many releases, all volume-up when t > c, all volume-down when    *)
(* t < c.                                                                  *)
(***************************************************************************)
C1_PulseCount ==
    \A r \in ReqIds :
        (RunDone(r) /\ AllOk(Cmds(r)) /\ ReportsVolume(Cmds(r)[1])
                    /\ ReportedVolume(Cmds(r)[1]) # Level(reqs[r].arg))
        => LET c == ReportedVolume(Cmds(r)[1])
               t == Level(reqs[r].arg)
               n == Ceil(Abs(c - t) * StepOf(r).d, StepOf(r).n)
           IN  /\ Len(Presses(r)) = n
               /\ Len(Releases(r)) = n
               /\ \A k \in 1 .. n :
                      Presses(r)[k].ctl = IF t > c THEN "volume-up" ELSE "volume-down"

\* c = 28, t = 30, s = 0.5: four volume-up pulses, all successful.
C1_Witness ==
    \E r \in ReqIds :
        /\ RunDone(r) /\ AllOk(Cmds(r)) /\ ReportsVolume(Cmds(r)[1])
        /\ ReportedVolume(Cmds(r)[1]) = 28 /\ Level(reqs[r].arg) = 30
        /\ StepOf(r) = Rat(1, 2)
        /\ Len(Presses(r)) = 4 /\ Len(Releases(r)) = 4
        /\ \A k \in 1 .. 4 : Presses(r)[k].ctl = "volume-up"

(***************************************************************************)
(* C2: a run whose first read reports the very level it is asked for       *)
(* issues no pressed and no released command, for a numeric target and for *)
(* the REST route's string alike.                                          *)
(***************************************************************************)
C2_NoPulseAtTarget ==
    \A r \in ReqIds :
        (IsRun(r) /\ Cmds(r) # <<>> /\ ReportsVolume(Cmds(r)[1])
                  /\ ReportedVolume(Cmds(r)[1]) = Level(reqs[r].arg))
        => Presses(r) = <<>> /\ Releases(r) = <<>>

\* A completed REST run whose string target equalled the reported level.
C2_Witness ==
    \E r \in ReqIds :
        /\ RunDone(r) /\ reqs[r].arg.t = "str" /\ ReportsVolume(Cmds(r)[1])
        /\ ReportedVolume(Cmds(r)[1]) = Level(reqs[r].arg)
        /\ Presses(r) = <<>>

(***************************************************************************)
(* What a finished run handed back: the value cec.js returned, the         *)
(* response app.js sent.                                                   *)
(***************************************************************************)
ResultFailed(r) ==
    IF prog = "mod" THEN reqs[r].res.error = TRUE
    ELSE reqs[r].http.status = 500 /\ reqs[r].http.body.error = TRUE
ResultText(r) == IF prog = "mod" THEN reqs[r].res.output ELSE reqs[r].http.body.message
HasLine(text, line) == \E j \in 1 .. Len(text) : text[j] = line
NamesStep(text, k) ==
    HasLine(text, Line("Failed to adjust volume on step ", Digits(k) \o <<".">>))

\* The k-th pulse of a run failed in its press or in its release.
PulseFailed(r, k) ==
    \/ ~Presses(r)[k].ok
    \/ k <= Len(Releases(r)) /\ ~Releases(r)[k].ok

(***************************************************************************)
(* C3: when the k-th pulse of a run is the first to fail, no pulse follows *)
(* it and the result is a failure that names step k.                       *)
(***************************************************************************)
C3_FailedPulseAborts ==
    \A r \in ReqIds :
        RunDone(r) =>
            \A k \in 1 .. Len(Presses(r)) :
                (PulseFailed(r, k) /\ \A j \in 1 .. k - 1 : ~PulseFailed(r, j))
                => /\ Len(Presses(r)) = k
                   /\ ResultFailed(r)
                   /\ NamesStep(ResultText(r), k)

(***************************************************************************)
(* C4: the result of sendUserControl reports an error exactly when its     *)
(* press or its release failed, and when both succeeded its output is the  *)
(* press output followed by the release output.                            *)
(***************************************************************************)
C4_CombinedFlag ==
    \A r \in ReqIds :
        (reqs[r].op = "sendUserControl" /\ reqs[r].pc = "done")
        => /\ reqs[r].res.error = ~AllOk(Cmds(r))
           /\ AllOk(Cmds(r)) =>
                  /\ Len(Cmds(r)) = 2
                  /\ reqs[r].res.output = Cmds(r)[1].out \o Cmds(r)[2].out

(***************************************************************************)
(* C5: on the bus of any request a release comes only right after a press  *)
(* that succeeded, a press that succeeded is followed at once by its       *)
(* release, a failed press is followed by no release, and a sendUserControl*)
(* call issues at most one press and one release.                          *)
(***************************************************************************)
C5_PressThenRelease ==
    \A r \in ReqIds :
        LET L == Cmds(r)
        IN  /\ \A j \in 1 .. Len(L) :
                   /\ IsRelease(L[j]) => j > 1 /\ IsPress(L[j - 1]) /\ L[j - 1].ok
                   /\ (IsPress(L[j]) /\ L[j].ok) => j < Len(L) /\ IsRelease(L[j + 1])
                   /\ (IsPress(L[j]) /\ ~L[j].ok) => j = Len(L)
            /\ reqs[r].op = "sendUserControl"
                   => /\ Len(L) \in {1, 2}
                      /\ IsPress(L[1])
                      /\ Len(L) = 1 <=> ~L[1].ok

\* A sendUserControl call whose press failed: one bus command, no release.
C5_Witness ==
    \E r \in ReqIds :
        /\ reqs[r].op = "sendUserControl" /\ reqs[r].pc = "done"
        /\ Len(Cmds(r)) = 1 /\ IsPress(Cmds(r)[1]) /\ ~Cmds(r)[1].ok

(***************************************************************************)
(* C6: a run whose first read succeeds at the gateway without yielding a   *)
(* volume level issues no further bus command and fails with the 'volume   *)
(* not available' reason.                                                  *)
(***************************************************************************)
C6_VolumeUnavailable ==
    \A r \in ReqIds :
        (RunDone(r) /\ Cmds(r)[1].ok /\ ~ReportsVolume(Cmds(r)[1]))
        => /\ Len(Cmds(r)) = 1
           /\ ResultFailed(r)
           /\ HasLine(ResultText(r),
                      Line("The current volume level is not available to compare against. Aborting.", <<>>))

C8_SingleToggle ==
    \A r \in ReqIds :
        reqs[r].op = "setMute"
        => /\ Len(Reads(r)) = 1 /\ IsRead(Cmds(r)[1])
           /\ Len(Presses(r)) <= 1 /\ Len(Releases(r)) <= 1
           /\ \A k \in 1 .. Len(Presses(r)) : Presses(r)[k].ctl = "mute"
           /\ (ReportsMute(Cmds(r)[1]) /\ ReportedMute(Cmds(r)[1]) # Denotes(reqs[r].arg))
                  => /\ Len(Presses(r)) = 1
                     /\ Len(Releases(r)) = IF Presses(r)[1].ok THEN 1 ELSE 0

\* An unmuted receiver asked to mute: read, press, release.
C8_Witness ==
    \E r \in ReqIds :
        /\ reqs[r].op = "setMute" /\ Denotes(reqs[r].arg) = 1
        /\ ReportsMute(Cmds(r)[1]) /\ ReportedMute(Cmds(r)[1]) = 0
        /\ Len(Cmds(r)) = 3 /\ IsPress(Cmds(r)[2]) /\ IsRelease(Cmds(r)[3])
        /\ AllOk(Cmds(r))

(***************************************************************************)
(* C9: initCEC issues clear first and playback second, playback only after *)
(* a clear that succeeded, and returns true exactly when both succeeded.   *)
(* (The bootstrap goes on to listen exactly when it returned true.)        *)
(***************************************************************************)
\* The bootstrap went on past initCEC: the server listens, or did so until
\* it was shut down.
Started == phase \in {"listening", "closing"} \/ (phase = "exited" /\ exitCode = 0)

C9_ClearThenPlayback ==
    (prog = "mod" /\ phase # "boot")
    => LET L == Cmds(0)
       IN  /\ Len(L) \in {1, 2}
           /\ L[1].cmd = "clear"
           /\ Len(L) = 2 <=> L[1].ok
           /\ Len(L) = 2 => L[2].cmd = "playback"
           /\ Started <=> AllOk(L) /\ Len(L) = 2

\* The clear succeeded, the registration failed: initCEC returned false.
C9_Witness ==
    /\ prog = "mod" /\ phase = "exited"
    /\ Len(Cmds(0)) = 2 /\ Cmds(0)[1].ok /\ ~Cmds(0)[2].ok

(***************************************************************************)
(* C10: a bus command of a request comes only after the startup clear and  *)
(* playback have both succeeded; the server listens only then, and after a *)
(* failed startup the process has exited with code 1 and no request was    *)
(* ever accepted.                                                          *)
(***************************************************************************)
Registered ==
    /\ Len(bus) >= 2
    /\ bus[1].rid = 0 /\ bus[1].cmd = "clear" /\ bus[1].ok
    /\ bus[2].rid = 0 /\ bus[2].cmd = "playback" /\ bus[2].ok

C11_ClearOnce ==
    /\ signals = 0 => Len(Teardowns) = 0
    /\ signals > 0 => Len(Teardowns) = 1

C13_QuietAfterTeardown ==
    \A j, k \in 1 .. Len(bus) : IsTeardown(bus[j]) /\ j < k => bus[k].rid <= 0

\* ---------------------------------------------------------------------------
\* Concurrent requests

C15_Serialized ==
    \A j, k, l \in 1 .. Len(bus) :
        j < k /\ k < l /\ bus[j].rid > 0 /\ bus[l].rid = bus[j].rid /\ bus[k].rid > 0
            => bus[k].rid = bus[j].rid

\* ---------------------------------------------------------------------------
\* The reads of a run (cec.js)

\* The pulses of a run went through, press and release.
PulsesOk(r) == AllOk(Presses(r)) /\ AllOk(Releases(r))
\* A run made a plan: its first read reported a level other than the target.
Planned(r) ==
    /\ Cmds(r)[1].ok /\ ReportsVolume(Cmds(r)[1])
    /\ ReportedVolume(Cmds(r)[1]) # Level(reqs[r].arg)
PlannedPulses(r) ==
    Ceil(Abs(ReportedVolume(Cmds(r)[1]) - Level(reqs[r].arg)) * StepOf(r).d, StepOf(r).n)
\* A run was stopped: by its first read failing, by the level missing from
\* it, or by a press that failed.
Aborted(r) ==
    \/ ~Cmds(r)[1].ok
    \/ HasLine(reqs[r].res.output,
               Line("The current volume level is not available to compare against. Aborting.", <<>>))
    \/ \E k \in 1 .. Len(Presses(r)) : ~Presses(r)[k].ok

\* C16: a finished run of cec.js whose planned pulses all succeeded has read
\* the status exactly once more, after its last pulse, and returns what that
\* read gave; it made the pulses planned from the first read and no others,
\* wherever they took the volume, so it holds exactly two reads.  An aborted
\* run holds exactly one.
C16_FinalRead ==
    \A r \in ReqIds :
        (prog = "mod" /\ RunDone(r)) =>
            LET L == Cmds(r)
                last == L[Len(L)]
            IN  /\ IsRead(L[1])
                /\ (Planned(r) /\ PulsesOk(r)) =>
                       /\ Len(Reads(r)) = 2
                       /\ IsRead(last)
                       /\ Len(Presses(r)) = PlannedPulses(r)
                       /\ \A k \in 2 .. Len(L) - 1 : ~IsRead(L[k])
                       /\ reqs[r].res.error = ~last.ok
                       /\ reqs[r].res.output = last.out
                       /\ ReportsVolume(last) => reqs[r].res.volume = Num(ReportedVolume(last))
                /\ Aborted(r) => Len(Reads(r)) = 1

\* A run with step 1.5 from 28 to 30: two pulses as planned, the second read
\* reports 29 and is returned; the run does not go on.
C16_Witness ==
    \E r \in ReqIds :
        /\ prog = "mod" /\ RunDone(r) /\ Planned(r) /\ PulsesOk(r)
        /\ ReportedVolume(Cmds(r)[1]) = 28 /\ Level(reqs[r].arg) = 30
        /\ Len(Presses(r)) = 2
        /\ Len(Reads(r)) = 2
        /\ ReportsVolume(Reads(r)[2]) /\ ReportedVolume(Reads(r)[2]) = 29
        /\ reqs[r].res.volume = Num(29)

\* C17: a run whose first read reports the very level asked for, as a number
\* or as the REST route's string, consists of that one bus transaction and
\* results in a success that says the volume is already set.
C17_AlreadySet ==
    \A r \in ReqIds :
        (RunDone(r) /\ Cmds(r)[1].ok /\ ReportsVolume(Cmds(r)[1])
                    /\ ReportedVolume(Cmds(r)[1]) = Level(reqs[r].arg))
        => /\ Len(Cmds(r)) = 1
           /\ ~ResultFailed(r)
           /\ HasLine(ResultText(r), Line("Volume is already set to the desired value.", <<>>))

\* ---------------------------------------------------------------------------
\* Configuration

\* C18: when initCEC was called with commandDelay = 0 the delay in force is
\* 0 and no run of setVolumeAbsolute waits between its pulses.
C18_ZeroDelay ==
    (prog = "mod" /\ phase # "boot" /\ cfg.options.commandDelay = Num(0))
        => /\ cfg.delay = 0
           /\ \A r \in ReqIds : reqs[r].pc # "wait"

\* ---------------------------------------------------------------------------
\* The adapters

\* C19: the response of a REST route is sent once, when the operation has
\* finished, and is made from its result: the body is the result, the status
\* 500 when the result is a failure and 200 otherwise.
C19_RestResult ==
    \A r \in ReqIds :
        (prog = "mod" /\ reqs[r].via = "rest" /\ reqs[r].http.sends > 0)
        => /\ reqs[r].pc = "done"
           /\ reqs[r].http.sends = 1
           /\ reqs[r].http.body = Object(reqs[r].res)
           /\ reqs[r].http.status = IF reqs[r].res.error = TRUE THEN 500 ELSE 200

\* C20: the reply to a WebSocket command is sent when the one operation of
\* the cec module the command stands for has finished, and is its result.
C20_WsOperation ==
    \A r \in ReqIds :
        (prog = "mod" /\ reqs[r].via = "ws" /\ reqs[r].reply # Undef)
        => /\ reqs[r].pc = "done"
           /\ reqs[r].op \in Exports
           /\ Len(Cmds(r)) >= 1
           /\ reqs[r].reply = Object(reqs[r].res)

\* C21: every WebSocket message is answered with exactly one reply and no
\* exception leaves the handler: a text that is no JSON and an unknown
\* command get an error reply and put nothing on the bus.
C21_OneReply ==
    \A r \in ReqIds :
        (prog = "mod" /\ reqs[r].via = "ws" /\ reqs[r].pc # "idle")
        => /\ reqs[r].reply # Undef
           /\ reqs[r].res # Thrown
           /\ reqs[r].op = "message" =>
                  /\ reqs[r].reply.v.error = TRUE
                  /\ Cmds(r) = <<>>
                  /\ reqs[r].arg = Str(<<"{\"command\":\"bogus\"}">>)
                         => reqs[r].reply.v.message = <<Line("Invalid command.", <<>>)>>

\* ---------------------------------------------------------------------------
\* Results of the single operations

\* C22: what getAudioStatus makes of a successful output, seen in the result
\* of a run of cec.js that returns a status read: the volume is the number
\* of the volume line, null when the line is missing; the mute is 1 when the
\* mute line reads on and 0 otherwise, also when the output is empty.
C22_StatusParse ==
    \A r \in ReqIds :
        (prog = "mod" /\ RunDone(r) /\ IsRead(Cmds(r)[Len(Cmds(r))]) /\ Cmds(r)[Len(Cmds(r))].ok)
        => LET last == Cmds(r)[Len(Cmds(r))]
           IN  /\ reqs[r].res.volume =
                      IF last.shape \in {"full", "nomute"} THEN Num(last.vol \div 2) ELSE Null
               /\ reqs[r].res.mute =
                      IF last.shape \in {"full", "novol"} /\ last.mute THEN Num(1) ELSE Num(0)

\* C23: getCECVersion makes exactly one gateway call.  When it succeeds the
\* version is the token after the cec-version marker, and no version (null
\* or none at all) when the output has no such line; when it fails the
\* result is a failure without a version.
C23_Version ==
    \A r \in ReqIds :
        (reqs[r].op = "getCECVersion" /\ reqs[r].pc = "done")
        => /\ Len(Cmds(r)) = 1
           /\ Cmds(r)[1].cmd = "get-cec-version"
           /\ reqs[r].res.error = ~Cmds(r)[1].ok
           /\ (Cmds(r)[1].ok /\ Cmds(r)[1].shape = "full")
                  => reqs[r].res.version =
                         Str(<<"v", "e", "r", "s", "i", "o", "n", "-", "1", "-", "4">>)
           /\ (~Cmds(r)[1].ok \/ Cmds(r)[1].shape # "full")
                  => reqs[r].res.version \in {Null, Undef}

\* A version request answered with the complete report.
C23_Witness ==
    \E r \in ReqIds :
        /\ reqs[r].op = "getCECVersion" /\ reqs[r].pc = "done"
        /\ Cmds(r)[1].ok /\ Cmds(r)[1].shape = "full"
        /\ reqs[r].res.version = Str(<<"v", "e", "r", "s", "i", "o", "n", "-", "1", "-", "4">>)

\* C24: the gateway of cec.js puts the baseline flags ahead of the caller's
\* arguments on every command line, and hands back a result, never an
\* exception: its error flag is set exactly when the command failed, and
\* its output is then the captured error text.
C24_Gateway ==
    prog = "mod" =>
        /\ \A k \in 1 .. Len(bus) :
               bus[k].line = <<CEC_CTL_COMMAND, CEC_CTL_PARAMS, bus[k].cmd>>
        /\ \A r \in ReqIds :
               (reqs[r].pc = "done" /\ reqs[r].op \in {"getCECVersion", "setStandby"})
               => /\ reqs[r].res # Thrown
                  /\ reqs[r].res.error = ~Cmds(r)[1].ok
                  /\ reqs[r].res.output = Cmds(r)[1].out
                  /\ ~Cmds(r)[1].ok => reqs[r].res.output = ErrText(Cmds(r)[1].cmd)

\* A gateway call that failed and came back as a result carrying the error
\* text.
C24_Witness ==
    \E r \in ReqIds :
        /\ prog = "mod" /\ reqs[r].pc = "done" /\ reqs[r].op = "setStandby"
        /\ ~Cmds(r)[1].ok
        /\ reqs[r].res.error = TRUE
        /\ reqs[r].res.output = ErrText("standby")
        /\ Cmds(r)[1].line = <<"cec-ctl", "-s --cec-version-1.4", "standby">>

\* C25: setActiveSource, setStandby and setImageViewOn each make exactly one
\* gateway call, their own, and return its result: a failure exactly when
\* the call failed, with the captured text of the call as it is.
C25_SingleCall ==
    \A r \in ReqIds :
        (reqs[r].pc = "done"
            /\ reqs[r].op \in {"setActiveSource", "setStandby", "setImageViewOn"})
        => /\ Len(Cmds(r)) = 1
           /\ Cmds(r)[1].cmd = CASE reqs[r].op = "setActiveSource" -> "active-source"
                                 [] reqs[r].op = "setStandby" -> "standby"
                                 [] reqs[r].op = "setImageViewOn" -> "image-view-on"
           /\ reqs[r].res.error = ~Cmds(r)[1].ok
           /\ reqs[r].res.output = Cmds(r)[1].out
           /\ reqs[r].res.mute = Undef /\ reqs[r].res.volume = Undef

\* setActiveSource whose one call failed.
C25_Witness ==
    \E r \in ReqIds :
        /\ reqs[r].pc = "done" /\ reqs[r].op = "setActiveSource"
        /\ Len(Cmds(r)) = 1 /\ ~Cmds(r)[1].ok
        /\ reqs[r].res.error = TRUE
        /\ reqs[r].res.output = ErrText("active-source")

\* C26: no operation of the cec module ends by raising, initCEC called with
\* no options included: an operation that has returned left a value (a
\* result object, a promise or a boolean), not an exception.
C26_NeverRaises ==
    \A r \in ReqIds :
        (prog = "mod" /\ reqs[r].pc = "done" /\ reqs[r].op \in Exports)
        => reqs[r].res # Thrown

C28_ReadFailed ==
    \A r \in ReqIds :
        (prog = "mod" /\ reqs[r].pc = "done"
            /\ reqs[r].op \in {"setVolumeAbsolute", "setMute"}
            /\ Len(Cmds(r)) >= 1 /\ ~Cmds(r)[1].ok)
        => /\ Len(Cmds(r)) = 1
           /\ Cmds(r)[1].cmd = "give-audio-status"
           /\ reqs[r].res.error = TRUE
           /\ reqs[r].res.output = Cmds(r)[1].out
           /\ reqs[r].res.output = ErrText("give-audio-status")

\* setVolumeAbsolute after a failed first read: one command, the failure returned.
C28_Witness ==
    \E r \in ReqIds :
        /\ prog = "mod" /\ reqs[r].pc = "done" /\ reqs[r].op = "setVolumeAbsolute"
        /\ Len(Cmds(r)) = 1 /\ ~Cmds(r)[1].ok
        /\ reqs[r].res.error = TRUE

\* C29: with a pacing delay above zero, a run of setVolumeAbsolute issues at
\* most one pulse in one stretch of execution, and a pulse whose press
\* succeeded is the last thing the stretch puts on the bus: the run is then
\* suspended on the timer of the delay, and its next bus command (the next
\* pulse or the final read) comes only once that timer has fired.  Two
\* pulses of one run are never issued back to back.
C29_Paced ==
    [][\A r \in ReqIds :
          (prog = "mod" /\ cfg.delay > 0 /\ reqs'[r].op = "setVolumeAbsolute")
          => LET old == Len(Cmds(r))
                 now == Cmds(r)'
                 new == IF Len(now) > old THEN SubSeq(now, old + 1, Len(now)) ELSE <<>>
             IN  /\ Len(SelectSeq(new, IsPress)) <= 1
                 /\ \A k \in 1 .. Len(new) :
                        (IsPress(new[k]) /\ new[k].ok)
                        => /\ Len(new) = k + 1 /\ IsRelease(new[k + 1])
                           /\ reqs'[r].pc = "wait"
                 /\ (new # <<>> /\ reqs[r].pc # "idle") => reqs[r].pc = "wait"]_vars

\* A run that has finished after two pulses, each followed by its wait, and
\* the final read.
C29_Witness ==
    \E r \in ReqIds :
        /\ prog = "mod" /\ cfg.delay > 0
        /\ reqs[r].op = "setVolumeAbsolute" /\ reqs[r].pc = "done"
        /\ Len(Presses(r)) >= 2 /\ AllOk(Presses(r))
        /\ IsRead(Cmds(r)[Len(Cmds(r))])

\* C30: a request for a relative volume change issues exactly one pulse,
\* whatever the size of the offset: a volume-up pulse when the offset is a
\* number above zero, a volume-down pulse otherwise (zero, a negative number,
\* no number); the pulse is a press and, when the press succeeded, its
\* release.
C30_OnePulse ==
    \A r \in ReqIds :
        (reqs[r].pc = "done" /\ reqs[r].via = "rest"
            /\ reqs[r].op \in {"increaseVolume", "decreaseVolume"})
        => LET L == Cmds(r)
               s == reqs[r].arg.v
               up == /\ s # <<>>
                     /\ \A k \in 1 .. Len(s) : IsDigit(s[k])
                     /\ \E k \in 1 .. Len(s) : s[k] # "0"
               control == IF up THEN "volume-up" ELSE "volume-down"
           IN  /\ Len(Presses(r)) = 1
               /\ IsPress(L[1]) /\ L[1].ctl = control
               /\ Len(L) = (IF L[1].ok THEN 2 ELSE 1)
               /\ Len(L) = 2 => IsRelease(L[2]) /\ L[2].ctl = control
               /\ reqs[r].op = (IF up THEN "increaseVolume" ELSE "decreaseVolume")

\* An offset that is no number: one volume-down pulse, complete.
C30_Witness ==
    \E r \in ReqIds :
        /\ reqs[r].pc = "done" /\ reqs[r].via = "rest" /\ reqs[r].op = "decreaseVolume"
        /\ reqs[r].arg = Str(<<"u", "p">>)
        /\ Len(Cmds(r)) = 2 /\ AllOk(Cmds(r))
        /\ Cmds(r)[1].ctl = "volume-down"

\* ---------------------------------------------------------------------------
\* The operations and the lifecycle

\* C31: the operations do not look at the lifecycle: a call issues the bus
\* commands its kind, its argument and the answers of the tool determine,
\* whether initCEC was never called, returned false, returned true, or
\* unregisterCEC has run; and no operation registers or unregisters: none
\* issues a clear or a playback command.
C31_NoLifecycle ==
    \A r \in ReqIds :
        reqs[r].pc = "done" =>
            LET L == Cmds(r)
                reported == IF ReportsMute(L[1]) /\ L[1].mute THEN 1 ELSE 0
                toggles == /\ L[1].ok
                           /\ L[1].shape = "empty" \/ Denotes(reqs[r].arg) # reported
            IN  /\ \A k \in 1 .. Len(L) : L[k].cmd \notin {"clear", "playback"}
                /\ reqs[r].op = "setStandby" => Len(L) = 1 /\ L[1].cmd = "standby"
                /\ reqs[r].op = "getCECVersion" => Len(L) = 1 /\ L[1].cmd = "get-cec-version"
                /\ reqs[r].op = "setMute" =>
                       /\ IsRead(L[1])
                       /\ Len(L) = (IF ~L[1].ok THEN 1
                                    ELSE IF ~toggles THEN 1
                                    ELSE IF L[2].ok THEN 3 ELSE 2)

\* Two calls of one state: one made before initCEC was ever called, the
\* other after unregisterCEC had run.
C31_Witness ==
    /\ reqs[1].pc = "done" /\ reqs[2].pc = "done"
    /\ Len(bus) >= 3
    /\ bus[1].rid = 1
    /\ \E k \in 2 .. Len(bus) - 1 : IsTeardown(bus[k]) /\ bus[k + 1].rid = 2
    /\ \A k \in 1 .. Len(bus) : bus[k].rid # 0

\* C32: setMute is idempotent: of two consecutive calls setMute(id, m), with
\* no other command between them and every command answered in full and
\* without failure by a receiver that flips its mute status on every pulse,
\* the second issues no pulse, and the two issue at most one pulse together.
C32_MuteIdempotent ==
    (/\ reqs[1].pc = "done" /\ reqs[2].pc = "done"
     /\ reqs[1].op = "setMute" /\ reqs[2].op = "setMute"
     /\ reqs[1].arg = reqs[2].arg
     /\ \A k \in 1 .. Len(bus) : bus[k].rid \in ReqIds => bus[k].nominal
     /\ \A j, k, l \in 1 .. Len(bus) :
            (j < k /\ k < l /\ bus[j].rid = 1 /\ bus[l].rid = 2) => bus[k].rid \in ReqIds)
    => /\ Presses(2) = <<>>
       /\ Len(Presses(1)) + Len(Presses(2)) <= 1

\* ---------------------------------------------------------------------------
\* Runs that overlap

\* C33: a run issues the pulses it planned from its own first read, as many
\* and no fewer, whatever another run did to the receiver meanwhile, and it
\* reads the status nowhere between its first command and its last.
C33_OwnPlan ==
    \A r \in ReqIds :
        RunDone(r) =>
            LET L == Cmds(r)
            IN  /\ IsRead(L[1])
                /\ \A k \in 2 .. Len(L) - 1 : ~IsRead(L[k])
                /\ Len(Presses(r)) = (IF Planned(r) THEN PlannedPulses(r) ELSE 0)
                /\ Len(Releases(r)) = Len(Presses(r))

\* A finished run of two pulses or more with a pulse of the other run
\* between two of its own commands.
C33_Witness ==
    \E r \in ReqIds :
        /\ RunDone(r) /\ Len(Presses(r)) >= 2
        /\ \E j, k, l \in 1 .. Len(bus) :
               /\ j < k /\ k < l
               /\ bus[j].rid = r /\ bus[l].rid = r
               /\ bus[k].rid \in ReqIds \ {r} /\ IsPress(bus[k])

\* ---------------------------------------------------------------------------
\* Where a run leaves the receiver

\* C34: a run of cec.js in which no command fails, alone on a receiver that
\* was at the level its first read reported and moved by exactly the
\* configured step at every pulse, leaves the receiver at the target when
\* the distance to it was a multiple of the step, and otherwise beyond the
\* target, less than one step away; the final read is taken at that level
\* and the result carries it (the status reports whole levels only).
\* Levels are counted in half units.
C34_Lands ==
    \A r \in ReqIds :
        (/\ prog = "mod" /\ RunDone(r)
         /\ \A k \in 1 .. Len(Cmds(r)) : Cmds(r)[k].nominal
         /\ Planned(r)
         /\ Cmds(r)[1].vol = 2 * ReportedVolume(Cmds(r)[1])
         /\ dev.step * cfg.step.d = 2 * cfg.step.n
         /\ Abs(dev.vol - Cmds(r)[1].vol) = Len(Presses(r)) * dev.step)
        => LET L == Cmds(r)
               c == L[1].vol
               t == 2 * Level(reqs[r].arg)
               last == L[Len(L)]
           IN  /\ IF Abs(c - t) % dev.step = 0
                  THEN dev.vol = t
                  ELSE /\ (t - c) * (dev.vol - t) > 0
                       /\ Abs(dev.vol - t) < dev.step
               /\ IsRead(last) /\ last.vol = dev.vol
               /\ dev.vol % 2 = 0 => reqs[r].res.volume = Num(dev.vol \div 2)

\* A step of one and a half, one level to go: one pulse, half a level beyond.
C34_Witness ==
    \E r \in ReqIds :
        /\ prog = "mod" /\ RunDone(r) /\ AllOk(Cmds(r))
        /\ dev.step = 3 /\ cfg.step = Rat(3, 2)
        /\ Cmds(r)[1].vol = 56 /\ Level(reqs[r].arg) = 29
        /\ Len(Presses(r)) = 1
        /\ dev.vol = 59

\* ---------------------------------------------------------------------------
\* Termination of a run

C36_OneResponse ==
    \A r \in ReqIds : reqs[r].http.sends <= 1

====
